---- MODULE Spec2Model ----
(***************************************************************************)
(* A model of the openworkers runtime: the JsRuntime of core/runtime.rs    *)
(* (eval, send_message, run_event_loop and the two bridge functions        *)
(* postMessage / onMessage) and the JsContext of base/mod.rs (eval,        *)
(* fetch).  Script code is modelled by the bridge calls it makes, one      *)
(* action per call, between the host operation that starts the script and  *)
(* the point where the script returns or throws.                           *)
(***************************************************************************)
EXTENDS Integers, Sequences, FiniteSets, TLC

\* ------------------------------------------------------------------------
\* Bounds of the model
\* ------------------------------------------------------------------------

\* most microtask jobs that may be pending at once
MaxMicrotasks == 1

\* how many onMessage calls with a callable argument the history records
MaxRegCount == 2

\* most extensions that are bound into one JsContext
MaxExts == 4

\* ------------------------------------------------------------------------
\* Script values (v8::Value), each a record tagged by its type
\* ------------------------------------------------------------------------

Undefined == [t |-> "undefined"]

Null == [t |-> "null"]

Infinity == [t |-> "inf"]

SymbolV == [t |-> "symbol"]

Num(n) == [t |-> "num", n |-> n]

Str(s) == [t |-> "str", s |-> s]

Fn(h) == [t |-> "fn", h |-> h]

Arr(es) == [t |-> "arr", elems |-> es]

\* an object with the four properties a message may carry; a property that
\* is not set reads as Undefined
Obj(kind, level, date, args) ==
    [t |-> "obj", kind |-> kind, level |-> level, date |-> date, args |-> args]

\* the callables a script may pass to onMessage
Handlers == {"h1", "h2"}

NoHandler == "None"

\* the two objects of the model: a JsRuntime and a JsContext
Objects == {"rt", "ctx"}

\* ------------------------------------------------------------------------
\* Engine conversions used by the bridge functions
\* ------------------------------------------------------------------------

\* FunctionCallbackArguments::get(i): a missing argument reads as undefined
ArgGet(args, i) == IF i + 1 <= Len(args) THEN args[i + 1] ELSE Undefined

\* Value::is_function
IsFunction(v) == v.t = "fn"

\* Value::to_object succeeds for everything but undefined and null
ToObjectOk(v) == v.t \notin {"undefined", "null"}

\* utils::get(scope, object, key): a property read; the wrapper object of a
\* primitive, a function and an array have none of the message properties
Get(object, key) == IF object.t = "obj" THEN object[key] ELSE Undefined

RECURSIVE JoinElems(_, _)

RECURSIVE ToRustStringLossy(_)

\* Array.prototype.join, which is how an array converts to a string
JoinElems(es, sep) ==
    IF es = <<>> THEN ""
    ELSE IF Len(es) = 1 THEN ToRustStringLossy(es[1])
    ELSE ToRustStringLossy(es[1]) \o sep \o JoinElems(Tail(es), sep)

\* Value::to_rust_string_lossy: the script string conversion, empty when the
\* conversion fails
ToRustStringLossy(v) ==
    CASE v.t = "str" -> v.s
      [] v.t = "num" -> ToString(v.n)
      [] v.t = "undefined" -> "undefined"
      [] v.t = "null" -> "null"
      [] v.t = "inf" -> "Infinity"
      [] v.t = "fn" -> "function " \o v.h
      [] v.t = "arr" -> JoinElems(v.elems, ",")
      [] v.t = "obj" -> "[object Object]"
      [] v.t = "symbol" -> ""

\* Value::to_string fails for a symbol
ToStringOk(v) == v.t # "symbol"

\* Value::integer_value(scope).unwrap_or(0): an i64, kept as a small integer
\* or as the saturated maximum that Infinity converts to; whatever is not a
\* number converts through NaN to 0
IntegerValue(v) ==
    CASE v.t = "num" -> [sat |-> FALSE, v |-> v.n]
      [] v.t = "inf" -> [sat |-> TRUE, v |-> 0]
      [] OTHER -> [sat |-> FALSE, v |-> 0]

\* chrono::NaiveDateTime::from_timestamp_millis: None outside the calendar
\* range (the saturated i64 is), else seconds and milliseconds by euclidean
\* division
TimestampOk(ms) == ~ms.sat

FromTimestampMillis(ms) == [secs |-> ms.v \div 1000, millis |-> ms.v % 1000]

\* the Debug form of a NaiveDateTime, kept symbolic in its two components
FormatDateTime(dt) == "T" \o ToString(dt.secs) \o "." \o ToString(dt.millis)

\* Local<Array>::try_from
IsArray(v) == v.t = "arr"

\* the ! of Rust on an i32 is the bitwise complement
Not32(n) == (-n) - 1

\* ------------------------------------------------------------------------
\* The bridge functions.  Each yields the lines it prints, the exception it
\* leaves pending for the calling script ("none", "TypeError" or "Error") and
\* whether the host panicked (an unwrap of None, a RefCell borrowed twice).
\* ------------------------------------------------------------------------

Panicked(lines) == [lines |-> lines, thrown |-> "none", panicked |-> TRUE]

Returned(lines, thrown) == [lines |-> lines, thrown |-> thrown, panicked |-> FALSE]

RECURSIVE ConsoleOutputReversed(_)

\* ConsoleOutput as it would be if each argument were put in front of the
\* output so far
ConsoleOutputReversed(es) ==
    IF es = <<>> THEN ""
    ELSE ConsoleOutputReversed(Tail(es)) \o " " \o ToRustStringLossy(es[1])

RECURSIVE ConsoleOutput(_)

\* the loop over args of the console branch: each argument's string form
\* behind one space
ConsoleOutput(es) ==
    IF es = <<>> THEN ""
    ELSE " " \o ToRustStringLossy(es[1]) \o ConsoleOutput(Tail(es))

\* the line the console branch prints
ConsoleLine(date, level, output) ==
    "[" \o FormatDateTime(date) \o "] console." \o level \o ":" \o output

\* the guard of the arity check as the source writes it: !args.length() == 1
ArityMismatch(n) == Not32(n) = 1

\* IsConsoleKind as it would be if the match ignored case
IsConsoleKindAnyCase(kind) == kind \in {"console", "Console", "CONSOLE"}

\* the match on kind
IsConsoleKind(kind) == kind = "console"

\* postMessage
message_from_worker(args) ==
    IF ArityMismatch(Len(args))
    THEN Returned(<<"postMessage expects 1 argument, got " \o ToString(Len(args))>>,
                  "TypeError")
    ELSE LET message == ArgGet(args, 0) IN
         IF ~ToObjectOk(message) THEN Panicked(<<>>)
         ELSE LET kind == ToRustStringLossy(Get(message, "kind")) IN
              IF IsConsoleKind(kind)
              THEN LET level == ToRustStringLossy(Get(message, "level"))
                       date == IntegerValue(Get(message, "date"))
                       list == Get(message, "args")
                   IN  IF ~TimestampOk(date) THEN Panicked(<<>>)
                       ELSE IF ~IsArray(list) THEN Panicked(<<>>)
                       ELSE Returned(<<ConsoleLine(FromTimestampMillis(date), level,
                                                   ConsoleOutput(list.elems))>>,
                                     "none")
              ELSE Returned(<<"Unknown message kind: " \o kind>>, "none")

\* StoreHandler as it would be if a registration replaced the stored handler
StoreHandlerOverwrite(slot, callback) == callback

\* StoreHandler as it would be if a duplicate registration took the stored
\* handler out of the slot
StoreHandlerTake(slot, callback) == IF slot # NoHandler THEN NoHandler ELSE callback

\* the match on state.handler of onMessage: the slot afterwards
StoreHandler(slot, callback) == IF slot # NoHandler THEN slot ELSE callback

\* register_message_handler as it would be if it returned without throwing
\* when its argument is not a function
register_message_handler_silent(h, b, args) ==
    LET called == "onMessage called " \o ToString(Len(args))
        callback == ArgGet(args, 0)
    IN  IF ~IsFunction(callback)
        THEN [handler |-> h] @@ Returned(<<called>>, "none")
        ELSE IF b
        THEN [handler |-> h] @@ Panicked(<<called>>)
        ELSE IF h # NoHandler
        THEN [handler |-> StoreHandler(h, callback.h)]
             @@ Returned(<<called, "Handler already registered">>, "Error")
        ELSE [handler |-> StoreHandler(h, callback.h)]
             @@ Returned(<<called, "Registering handler">>, "none")

\* onMessage, called with the slot holding h and the RefCell borrow flag b
register_message_handler(h, b, args) ==
    LET called == "onMessage called " \o ToString(Len(args))
        callback == ArgGet(args, 0)
    IN  IF ~IsFunction(callback)
        THEN [handler |-> h] @@ Returned(<<called>>, "TypeError")
        ELSE IF b
        THEN [handler |-> h] @@ Panicked(<<called>>)
        ELSE IF h # NoHandler
        THEN [handler |-> StoreHandler(h, callback.h)]
             @@ Returned(<<called, "Handler already registered">>, "Error")
        ELSE [handler |-> StoreHandler(h, callback.h)]
             @@ Returned(<<called, "Registering handler">>, "none")

\* ------------------------------------------------------------------------
\* The evaluation API and the host side of a dispatch
\* ------------------------------------------------------------------------

\* the sources eval is given: one that compiles, one that is not
\* syntactically valid, one with a dynamic import expression
Sources == {"valid", "}", "import('moduleName')", "typeof console"}

\* the source that probes the global console
Probe == "typeof console"

\* v8::Script::compile: None for the two sources that do not compile
CompileOk(src) == src \notin {"}", "import('moduleName')"}

Res(tag, val) == [tag |-> tag, val |-> val]

Continued(res, lines, p) == [result |-> res, lines |-> lines, panicked |-> p]

\* eval after script.run: the completion c of the script becomes the result
EvalResult(c) ==
    IF c.kind = "throw" THEN Res("Err", "RuntimeError")
    ELSE IF ~ToStringOk(c.val) THEN Res("Err", "ConversionError")
    ELSE Res("Ok", ToRustStringLossy(c.val))

\* send_message after handler.call: None when the handler threw
SendMessageResult(c) ==
    IF c.kind = "throw" THEN Res("None", "") ELSE Res("Some", ToRustStringLossy(c.val))

\* fetch after handler.call: both unwraps
FetchPanics(c) == c.kind = "throw" \/ ~ToStringOk(c.val)

\* HostContinue as it would be if eval unwrapped the result of script.run
HostContinueUnwrapRun(op, c) ==
    CASE op = "eval" ->
            IF c.kind = "throw" THEN Continued(Res("panic", ""), <<>>, TRUE)
            ELSE Continued(EvalResult(c), <<>>, FALSE)
      [] op = "send_message" ->
            Continued(SendMessageResult(c),
                      <<"Event result: " \o SendMessageResult(c).tag>>, FALSE)
      [] op = "fetch" ->
            IF FetchPanics(c) THEN Continued(Res("panic", ""), <<>>, TRUE)
            ELSE Continued(Res("Some", ToRustStringLossy(c.val)),
                           <<"event result: " \o ToRustStringLossy(c.val)>>, FALSE)
      [] op = "run_event_loop" -> Continued(Res("unit", ""), <<>>, FALSE)

\* HostContinue as it would be if run_event_loop failed once the checkpoint
\* is done
HostContinueEventLoopFails(op, c) ==
    CASE op = "eval" -> Continued(EvalResult(c), <<>>, FALSE)
      [] op = "send_message" ->
            Continued(SendMessageResult(c),
                      <<"Event result: " \o SendMessageResult(c).tag>>, FALSE)
      [] op = "fetch" ->
            IF FetchPanics(c) THEN Continued(Res("panic", ""), <<>>, TRUE)
            ELSE Continued(Res("Some", ToRustStringLossy(c.val)),
                           <<"event result: " \o ToRustStringLossy(c.val)>>, FALSE)
      [] op = "run_event_loop" -> Continued(Res("panic", ""), <<>>, TRUE)

\* what the host operation op does once the script it called has returned
HostContinue(op, c) ==
    CASE op = "eval" -> Continued(EvalResult(c), <<>>, FALSE)
      [] op = "send_message" ->
            Continued(SendMessageResult(c),
                      <<"Event result: " \o SendMessageResult(c).tag>>, FALSE)
      [] op = "fetch" ->
            IF FetchPanics(c) THEN Continued(Res("panic", ""), <<>>, TRUE)
            ELSE Continued(Res("Some", ToRustStringLossy(c.val)),
                           <<"event result: " \o ToRustStringLossy(c.val)>>, FALSE)
      [] op = "run_event_loop" -> Continued(Res("unit", ""), <<>>, FALSE)

\* ------------------------------------------------------------------------
\* State
\* ------------------------------------------------------------------------

VARIABLES
    handler,      \* JsRuntime: the handler slot of the RuntimeState
    borrowed,     \* JsRuntime: whether the RefCell of the state is borrowed
    ctx_handler,  \* JsContext: the handler slot of its JsState
    pc,           \* "idle", "script" (a script or handler is running),
                  \* "micro" (a microtask job is running), "aborted"
    cur,          \* the host operation running, or the last one that ran
    completion,   \* how the script called by cur ended
    result,       \* what the last host operation returned to the embedder
    last,         \* the last bridge call a script made
    out,          \* the lines printed by the last step
    microtasks,   \* the number of pending microtask jobs
    steps,        \* the steps the last send_message or run_event_loop
                  \* took, in order
    panicked,     \* the host has panicked
    registrations, \* history: the callables onMessage was called with, in
                  \* order, the first MaxRegCount of them
    threw,        \* history: per object, whether an eval of it has ended in
                  \* a RuntimeError
    made,         \* per object, the constructor that made it ("no" before)
    boot,         \* JsRuntime: the bootstrap scripts evaluated, in order
    exts,         \* JsContext: the extensions bound into it, in order
    console       \* per object, what the global console of its context is

setupVars == <<made, boot, exts, console>>

vars == <<handler, borrowed, ctx_handler, pc, cur, completion, result, last,
          out, microtasks, steps, panicked, registrations, threw, made, boot,
          exts, console>>

\* ------------------------------------------------------------------------
\* Inputs
\* ------------------------------------------------------------------------

\* argument lists scripts call onMessage with
OnMessageArgs ==
    {<<>>, <<Num(5)>>, <<Num(5), Fn("h1")>>, <<Fn("h1"), Fn("h2")>>}
    \cup {<<Fn(h)>> : h \in Handlers}

\* the values the date property of a console message is given
Dates == {Num(0), Num(1500), Num(-1), Undefined, Str("x"), Infinity}

\* the values the args property of a console message is given
ArgLists ==
    {Arr(<<>>), Arr(<<Str("a"), Str("b")>>), Arr(<<Str("b"), Str("a")>>),
     Arr(<<Num(1), Str("a"), Null>>), Undefined, Str("a")}

ConsoleMessages ==
    {Obj(Str("console"), Str("info"), date, Arr(<<Str("a"), Str("b")>>)) :
        date \in Dates}
    \cup {Obj(Str("console"), Str("info"), Num(0), list) : list \in ArgLists}
    \cup {Obj(Str("console"), Undefined, Num(0), Arr(<<Str("a"), Str("b")>>)),
          Obj(Str("console"), Str("warn"), Infinity, Undefined)}

OtherMessages ==
    {Obj(kind, Str("info"), Num(0), Arr(<<Str("a"), Str("b")>>)) :
        kind \in {Str("fetch"), Str("Console"), Undefined, Num(1)}}
    \cup {Obj(Str("fetch"), Undefined, Infinity, Undefined)}

Messages == ConsoleMessages \cup OtherMessages

\* argument lists scripts call postMessage with
PostMessageArgs ==
    {<<>>, <<Undefined>>, <<Null>>, <<Num(5)>>, <<Str("console")>>}
    \cup {<<m>> : m \in Messages}
    \cup {<<Obj(Str("console"), Str("info"), Num(0), Arr(<<Str("a"), Str("b")>>)),
            Num(5)>>,
          <<Undefined, Obj(Str("fetch"), Str("info"), Num(0), Undefined)>>}

\* completion values of scripts and handlers
ReturnValues == {Undefined, Num(2), Str("xxx"), SymbolV}

NoCall == [fn |-> "none", args |-> <<>>, thrown |-> "none", caught |-> FALSE,
           before |-> NoHandler]

NoCompletion == [kind |-> "none", val |-> Undefined]

Thrown == [kind |-> "throw", val |-> Undefined]

Completed(v) == [kind |-> "return", val |-> v]

Op(obj, op, src, fn) == [obj |-> obj, op |-> op, src |-> src, fn |-> fn]

\* ------------------------------------------------------------------------
\* Construction
\* ------------------------------------------------------------------------

\* JsRuntime::create_init: the bootstrap scripts it evaluates and the bridge
\* functions it installs, in the order of the source
BootSteps ==
    <<"init.js", "atob.js", "btoa.js", "console.js", "navigator.js", "events.js",
      "fetch/headers.js", "fetch/response.js", "fetch/request.js",
      "fetch/fetch-event.js", "postMessage", "onMessage", "message.js">>

\* the steps of create_init that evaluate a script (the rest install a bridge)
IsScript(step) == step \notin {"postMessage", "onMessage"}

\* the indices of the bootstrap scripts, and 0 for "none of them"
FailPoints == {0} \cup {i \in 1..Len(BootSteps) : IsScript(BootSteps[i])}

\* create_init as it would be if a bootstrap script that fails were skipped
create_init_skip(f) ==
    [boot |-> IF f = 0 THEN BootSteps
              ELSE SubSeq(BootSteps, 1, f - 1) \o SubSeq(BootSteps, f + 1, Len(BootSteps)),
     panicked |-> FALSE]

\* JsRuntime::create_init when the script at index f fails to evaluate (none
\* when f = 0): each eval is unwrapped, so the steps before f are done and
\* the constructor panics at f
create_init(f) ==
    [boot |-> IF f = 0 THEN BootSteps ELSE SubSeq(BootSteps, 1, f - 1),
     panicked |-> f # 0]

\* the global console of the JsRuntime's context once the steps done are
\* taken: the engine's own until console.js is evaluated (nothing deletes it)
RuntimeConsole(done) ==
    IF \E i \in 1..Len(done) : done[i] = "console.js" THEN "bootstrap" ELSE "default"

\* the extensions JsContext::create_init registers, in order
DefaultExtensions == <<"ConsoleExt", "Base64UtilsExt", "EventListerExt">>

Extensions == {"ConsoleExt", "Base64UtilsExt", "EventListerExt"}

\* CreatedConsole as it would be if create left the global object alone
CreatedConsoleKept == "default"

\* JsContext::create: the default console is deleted from the new context
CreatedConsole == "absent"

\* JsExt::bind of ext in a context whose global console is con: the console
\* extension defines the console, the others leave it
bind(ext, con) == IF ext = "ConsoleExt" THEN "extension" ELSE con

\* JsContext::register: binds ext, whatever was bound before
register(c, ext) == [exts |-> Append(c.exts, ext), console |-> bind(ext, c.console)]

\* JsContext::create
create == [exts |-> <<>>, console |-> CreatedConsole]

\* JsContext::create_init
ctx_create_init ==
    register(register(register(create, "ConsoleExt"), "Base64UtilsExt"),
             "EventListerExt")

Constructed(obj) == made[obj] \in {"create", "create_init"}

\* ------------------------------------------------------------------------
\* Init: both objects as their constructors leave them
\* ------------------------------------------------------------------------

\* the process before any operation
Started ==
    /\ handler = NoHandler
    /\ borrowed = FALSE
    /\ ctx_handler = NoHandler
    /\ pc = "idle"
    /\ cur = Op("none", "none", "", NoHandler)
    /\ completion = NoCompletion
    /\ result = Res("none", "")
    /\ last = NoCall
    /\ out = <<>>
    /\ microtasks = 0
    /\ steps = <<>>
    /\ panicked = FALSE
    /\ registrations = <<>>
    /\ threw = [o \in Objects |-> FALSE]

Init ==
    /\ Started
    /\ made = [o \in Objects |-> "create_init"]
    /\ boot = create_init(0).boot
    /\ exts = ctx_create_init.exts
    /\ console = [o \in Objects |->
                    IF o = "rt" THEN RuntimeConsole(create_init(0).boot)
                    ELSE ctx_create_init.console]

\* neither object is constructed yet
InitSetup ==
    /\ Started
    /\ made = [o \in Objects |-> "no"]
    /\ boot = <<>>
    /\ exts = <<>>
    /\ console = [o \in Objects |-> "none"]

\* ------------------------------------------------------------------------
\* Leaving script code
\* ------------------------------------------------------------------------

\* The script called by cur, or a microtask job, has ended: c is the
\* completion of the script, lines what the ending step printed and mt the
\* jobs still pending.  The engine runs the pending jobs before the call
\* into script returns (microtask policy of Isolate::new's defaults); with
\* none left the host operation continues and returns.
Leave(op, c, lines, mt) ==
    /\ completion' = c
    /\ microtasks' = mt
    /\ IF mt > 0
       THEN /\ pc' = "micro"
            /\ result' = result
            /\ out' = lines
            /\ panicked' = panicked
       ELSE LET k == HostContinue(op, c) IN
            /\ pc' = IF k.panicked THEN "aborted" ELSE "idle"
            /\ result' = k.result
            /\ out' = lines \o k.lines
            /\ panicked' = k.panicked

\* a bridge call made by running script code has returned r to it
AfterCall(r, caught) ==
    IF r.panicked
    THEN /\ pc' = "aborted"
         /\ panicked' = TRUE
         /\ out' = r.lines
         /\ result' = Res("panic", "")
         /\ UNCHANGED <<completion, microtasks>>
    ELSE IF r.thrown = "none" \/ caught
    THEN /\ out' = r.lines
         /\ UNCHANGED <<pc, panicked, result, completion, microtasks>>
    ELSE IF pc = "script"
    THEN Leave(cur.op, Thrown, r.lines, microtasks)
    ELSE Leave(cur.op, completion, r.lines, microtasks - 1)

\* script code that may do anything is running (the probe does one thing)
Running == pc \in {"script", "micro"} /\ ~panicked /\ cur.src # Probe

Idle == pc = "idle" /\ ~panicked

\* ------------------------------------------------------------------------
\* Host operations
\* ------------------------------------------------------------------------

\* EvalCompile as it would be if a compile failure were reported as a
\* RuntimeError
EvalCompileAsRuntimeError(src) ==
    IF CompileOk(src) THEN Res("pending", "") ELSE Res("Err", "RuntimeError")

\* eval up to script.run: a source that does not compile is a CompileError
EvalCompile(src) ==
    IF CompileOk(src) THEN Res("pending", "") ELSE Res("Err", "CompileError")

\* JsRuntime::eval and JsContext::eval (the same code): compile, then run
Eval(obj, src) ==
    /\ Idle
    /\ Constructed(obj)
    /\ cur' = Op(obj, "eval", src, NoHandler)
    /\ last' = NoCall
    /\ steps' = <<>>
    /\ out' = <<>>
    /\ completion' = NoCompletion
    /\ result' = EvalCompile(src)
    /\ pc' = IF result' = Res("pending", "") THEN "script" ELSE "idle"
    /\ UNCHANGED <<handler, borrowed, ctx_handler, microtasks, panicked,
                   registrations, threw>>
    /\ UNCHANGED setupVars

\* BorrowAtCall as it would be if the borrow taken for the lookup lived to
\* the end of send_message
BorrowAtCallHeld == TRUE

\* send_message: whether the borrow of the state is still held when the
\* handler is called (the block of the lookup ends before the call)
BorrowAtCall == FALSE

\* DispatchSteps as it would be if the handler slot were read before the
\* event is prepared
DispatchStepsLookupFirst(slot) ==
    IF slot = NoHandler THEN <<"lookup", "prepare">>
    ELSE <<"lookup", "prepare", "to_value", "call">>

\* send_message: the steps taken for the slot it finds
DispatchSteps(slot) ==
    IF slot = NoHandler THEN <<"prepare", "lookup">>
    ELSE <<"prepare", "lookup", "to_value", "call">>

\* handler_lookup as it would be if the handler were unwrapped
handler_lookup_unwrap(slot, b) ==
    IF b \/ slot = NoHandler THEN [found |-> FALSE] @@ Panicked(<<>>)
    ELSE [found |-> TRUE] @@ Returned(<<>>, "none")

\* send_message: the lookup of the handler in the state, whose RefCell
\* borrow flag is b
handler_lookup(slot, b) ==
    IF b THEN [found |-> FALSE] @@ Panicked(<<>>)
    ELSE IF slot = NoHandler
    THEN [found |-> FALSE] @@ Returned(<<"No handler registered">>, "none")
    ELSE [found |-> TRUE] @@ Returned(<<>>, "none")

\* JsRuntime::send_message up to the call of the handler
SendMessage ==
    /\ Idle
    /\ Constructed("rt")
    /\ last' = NoCall
    /\ completion' = NoCompletion
    /\ cur' = Op("rt", "send_message", "", handler)
    /\ steps' = DispatchSteps(handler)
    /\ LET l == handler_lookup(handler, borrowed) IN
       /\ out' = l.lines
       /\ panicked' = l.panicked
       /\ pc' = IF l.panicked THEN "aborted" ELSE IF l.found THEN "script" ELSE "idle"
       /\ result' = IF l.panicked THEN Res("panic", "")
                    ELSE IF l.found THEN Res("pending", "") ELSE Res("None", "")
       /\ borrowed' = IF l.panicked THEN borrowed
                      ELSE IF l.found THEN BorrowAtCall ELSE FALSE
    /\ UNCHANGED <<handler, ctx_handler, microtasks, registrations, threw>>
    /\ UNCHANGED setupVars

\* JsContext::fetch up to the call of the handler
Fetch ==
    /\ Idle
    /\ Constructed("ctx")
    /\ last' = NoCall
    /\ completion' = NoCompletion
    /\ steps' = <<>>
    /\ cur' = Op("ctx", "fetch", "", ctx_handler)
    /\ IF ctx_handler = NoHandler
       THEN /\ pc' = "idle"
            /\ result' = Res("None", "")
            /\ out' = <<"No handler registered">>
       ELSE /\ pc' = "script"
            /\ result' = Res("pending", "")
            /\ out' = <<>>
    /\ UNCHANGED <<handler, borrowed, ctx_handler, microtasks, panicked,
                   registrations, threw>>
    /\ UNCHANGED setupVars

\* EventLoopSteps as it would be if the loop went round a second time
EventLoopStepsTwice == <<"checkpoint", "checkpoint">>

\* run_event_loop: the steps of its loop, whose body is a microtask
\* checkpoint followed by break
EventLoopSteps == <<"checkpoint">>

\* JsRuntime::run_event_loop: one microtask checkpoint
RunEventLoop ==
    /\ Idle
    /\ Constructed("rt")
    /\ last' = NoCall
    /\ steps' = EventLoopSteps
    /\ cur' = Op("rt", "run_event_loop", "", NoHandler)
    /\ Leave("run_event_loop", Completed(Undefined), <<>>, microtasks)
    /\ UNCHANGED <<handler, borrowed, ctx_handler, registrations, threw>>
    /\ UNCHANGED setupVars

\* ------------------------------------------------------------------------
\* Steps of running script code
\* ------------------------------------------------------------------------

\* history: threw once the step has been taken
ThrewAfter ==
    IF cur.op = "eval" /\ result' = Res("Err", "RuntimeError")
    THEN [threw EXCEPT ![cur.obj] = TRUE]
    ELSE threw

Call(fn, args, r, caught, before) ==
    [fn |-> fn, args |-> args, thrown |-> r.thrown, caught |-> caught,
     before |-> before]

\* script calls onMessage(args); caught says whether a try/catch of the
\* script catches what the call throws
ScriptOnMessage(args, caught) ==
    /\ Running
    /\ cur.obj = "rt"
    /\ LET r == register_message_handler(handler, borrowed, args) IN
       /\ caught => r.thrown # "none"
       /\ handler' = r.handler
       /\ last' = Call("onMessage", args, r, caught, handler)
       /\ AfterCall(r, caught)
    /\ registrations' =
          IF IsFunction(ArgGet(args, 0)) /\ Len(registrations) < MaxRegCount
          THEN Append(registrations, ArgGet(args, 0).h)
          ELSE registrations
    /\ threw' = ThrewAfter
    /\ UNCHANGED <<borrowed, ctx_handler, cur, steps>>
    /\ UNCHANGED setupVars

\* script calls postMessage(args); caught as for onMessage
ScriptPostMessage(args, caught) ==
    /\ Running
    /\ cur.obj = "rt"
    /\ LET r == message_from_worker(args) IN
       /\ caught => r.thrown # "none"
       /\ last' = Call("postMessage", args, r, caught, handler)
       /\ AfterCall(r, caught)
    /\ UNCHANGED <<handler, borrowed, ctx_handler, cur, steps, registrations>>
    /\ threw' = ThrewAfter
    /\ UNCHANGED setupVars

\* script of a JsContext registers a listener through the event-listener
\* extension, which stores it in the JsState
ScriptAddEventListener(h) ==
    /\ Running
    /\ cur.obj = "ctx"
    /\ \E i \in 1..Len(exts) : exts[i] = "EventListerExt"
    /\ ctx_handler' = h
    /\ last' = NoCall
    /\ out' = <<>>
    /\ UNCHANGED <<handler, borrowed, pc, cur, completion, result, microtasks,
                   steps, panicked, registrations, threw>>
    /\ UNCHANGED setupVars

\* script throws an exception of its own that nothing catches
ScriptThrow ==
    /\ Running
    /\ last' = NoCall
    /\ IF pc = "script"
       THEN Leave(cur.op, Thrown, <<>>, microtasks)
       ELSE Leave(cur.op, completion, <<>>, microtasks - 1)
    /\ UNCHANGED <<handler, borrowed, ctx_handler, cur, steps, registrations>>
    /\ threw' = ThrewAfter
    /\ UNCHANGED setupVars

\* script queues a microtask job
ScriptQueueMicrotask ==
    /\ Running
    /\ microtasks < MaxMicrotasks
    /\ microtasks' = microtasks + 1
    /\ last' = NoCall
    /\ out' = <<>>
    /\ UNCHANGED <<handler, borrowed, ctx_handler, pc, cur, completion, result,
                   steps, panicked, registrations, threw>>
    /\ UNCHANGED setupVars

\* the script (or the handler) completes with the value v
ScriptReturn(v) ==
    /\ pc = "script"
    /\ ~panicked
    /\ cur.src # Probe
    /\ last' = NoCall
    /\ Leave(cur.op, Completed(v), <<>>, microtasks)
    /\ UNCHANGED <<handler, borrowed, ctx_handler, cur, steps, registrations>>
    /\ threw' = ThrewAfter
    /\ UNCHANGED setupVars

\* the running microtask job completes
JobDone ==
    /\ pc = "micro"
    /\ ~panicked
    /\ last' = NoCall
    /\ Leave(cur.op, completion, <<>>, microtasks - 1)
    /\ UNCHANGED <<handler, borrowed, ctx_handler, cur, steps, registrations>>
    /\ threw' = ThrewAfter
    /\ UNCHANGED setupVars

\* typeof of the global console of a context
TypeofConsole(con) == IF con = "absent" THEN "undefined" ELSE "object"

\* the probe completes with the type of the global console
ScriptTypeofConsole ==
    /\ pc = "script"
    /\ ~panicked
    /\ cur.src = Probe
    /\ last' = NoCall
    /\ Leave(cur.op, Completed(Str(TypeofConsole(console[cur.obj]))), <<>>,
             microtasks)
    /\ UNCHANGED <<handler, borrowed, ctx_handler, cur, steps, registrations>>
    /\ threw' = ThrewAfter
    /\ UNCHANGED setupVars

\* script assigns the global console
ScriptDefineConsole ==
    /\ Running
    /\ console[cur.obj] # "script"
    /\ console' = [console EXCEPT ![cur.obj] = "script"]
    /\ last' = NoCall
    /\ out' = <<>>
    /\ UNCHANGED <<handler, borrowed, ctx_handler, pc, cur, completion, result,
                   microtasks, steps, panicked, registrations, threw, made,
                   boot, exts>>

\* ------------------------------------------------------------------------
\* Constructors and the registration of extensions
\* ------------------------------------------------------------------------

\* the embedder calls JsRuntime::create_init; the bootstrap script at f fails
RtCreateInit(f) ==
    /\ Idle
    /\ made["rt"] = "no"
    /\ LET r == create_init(f) IN
       /\ boot' = r.boot
       /\ panicked' = r.panicked
       /\ pc' = IF r.panicked THEN "aborted" ELSE "idle"
       /\ made' = [made EXCEPT !["rt"] = IF r.panicked THEN "failed" ELSE "create_init"]
       /\ console' = [console EXCEPT !["rt"] = RuntimeConsole(r.boot)]
    /\ handler' = NoHandler
    /\ borrowed' = FALSE
    /\ last' = NoCall
    /\ out' = <<>>
    /\ UNCHANGED <<ctx_handler, cur, completion, result, microtasks, steps,
                   registrations, threw, exts>>

\* the embedder calls JsContext::create
CtxCreate ==
    /\ Idle
    /\ made["ctx"] = "no"
    /\ made' = [made EXCEPT !["ctx"] = "create"]
    /\ exts' = create.exts
    /\ console' = [console EXCEPT !["ctx"] = create.console]
    /\ ctx_handler' = NoHandler
    /\ last' = NoCall
    /\ out' = <<>>
    /\ UNCHANGED <<handler, borrowed, pc, cur, completion, result, microtasks,
                   steps, panicked, registrations, threw, boot>>

\* the embedder calls JsContext::create_init
CtxCreateInit ==
    /\ Idle
    /\ made["ctx"] = "no"
    /\ made' = [made EXCEPT !["ctx"] = "create_init"]
    /\ exts' = ctx_create_init.exts
    /\ console' = [console EXCEPT !["ctx"] = ctx_create_init.console]
    /\ ctx_handler' = NoHandler
    /\ last' = NoCall
    /\ out' = <<>>
    /\ UNCHANGED <<handler, borrowed, pc, cur, completion, result, microtasks,
                   steps, panicked, registrations, threw, boot>>

\* the embedder calls JsContext::register(ext) on its context
Register(ext) ==
    /\ Idle
    /\ Constructed("ctx")
    /\ Len(exts) < MaxExts
    /\ LET r == register([exts |-> exts, console |-> console["ctx"]], ext) IN
       /\ exts' = r.exts
       /\ console' = [console EXCEPT !["ctx"] = r.console]
    /\ last' = NoCall
    /\ out' = <<>>
    /\ UNCHANGED <<handler, borrowed, ctx_handler, pc, cur, completion, result,
                   microtasks, steps, panicked, registrations, threw, made, boot>>

Next ==
    \/ \E obj \in Objects, src \in Sources : Eval(obj, src)
    \/ SendMessage
    \/ Fetch
    \/ RunEventLoop
    \/ \E args \in OnMessageArgs, caught \in BOOLEAN : ScriptOnMessage(args, caught)
    \/ \E args \in PostMessageArgs, caught \in BOOLEAN : ScriptPostMessage(args, caught)
    \/ \E h \in Handlers : ScriptAddEventListener(h)
    \/ ScriptThrow
    \/ ScriptQueueMicrotask
    \/ \E v \in ReturnValues : ScriptReturn(v)
    \/ ScriptTypeofConsole
    \/ JobDone

\* the operations on the two objects once they are constructed
Spec == Init /\ [][Next]_vars

\* construction, the registration of extensions and the evaluation of scripts
NextSetup ==
    \/ \E f \in FailPoints : RtCreateInit(f)
    \/ CtxCreate
    \/ CtxCreateInit
    \/ \E ext \in Extensions : Register(ext)
    \/ \E obj \in Objects, src \in Sources : Eval(obj, src)
    \/ \E v \in ReturnValues : ScriptReturn(v)
    \/ ScriptTypeofConsole
    \/ ScriptDefineConsole
    \/ ScriptThrow
    \/ SendMessage
    \/ Fetch
    \/ RunEventLoop

SpecSetup == InitSetup /\ [][NextSetup]_vars

TypeOK ==
    /\ handler \in Handlers \cup {NoHandler}
    /\ ctx_handler \in Handlers \cup {NoHandler}
    /\ borrowed \in BOOLEAN
    /\ pc \in {"idle", "script", "micro", "aborted"}
    /\ microtasks \in 0..MaxMicrotasks
    /\ panicked \in BOOLEAN
    /\ Len(registrations) <= MaxRegCount
    /\ made \in [Objects -> {"no", "create", "create_init", "failed"}]
    /\ Len(boot) <= Len(BootSteps)
    /\ Len(exts) <= MaxExts
    /\ console \in [Objects -> {"none", "default", "absent", "bootstrap",
                                 "extension", "script"}]

\* ------------------------------------------------------------------------
\* Properties
\* ------------------------------------------------------------------------

\* the last step was a call of the bridge function fn
Called(fn) == last.fn = fn

\* C1: once onMessage has been called twice with callable arguments, the
\* second and every later such call has raised an Error into the script and
\* left the slot holding the callable of the first call, and every dispatch
\* made with two such calls on record calls the callable of the first call.
C1_SecondRegistrationRejected ==
    Len(registrations) >= 2 =>
        /\ handler = registrations[1]
        /\ (Called("onMessage") /\ IsFunction(ArgGet(last.args, 0))) =>
              (last.thrown = "Error" /\ last.before = registrations[1] /\ ~panicked)
        /\ cur.op = "send_message" =>
              (cur.fn = registrations[1] /\ steps[Len(steps)] = "call")

\* a dispatch has just called the handler, after onMessage(h1) and
\* onMessage(h2) were called in that order
C1_Witness ==
    /\ registrations = <<"h1", "h2">>
    /\ cur.op = "send_message"
    /\ cur.fn = "h1"
    /\ pc = "script"
    /\ out = <<>>
    /\ microtasks = 0

\* C2: the handler slot of the RuntimeState starts empty and, once it holds
\* a handler, no step of any operation changes it.
C2_HandlerSetAtMostOnce ==
    /\ handler = NoHandler
    /\ [][handler # NoHandler => handler' = handler]_vars

\* the slot holds h1 after a script has called onMessage(h2) on it
C2_Witness ==
    /\ handler = "h1"
    /\ Called("onMessage")
    /\ last.args = <<Fn("h2")>>
    /\ last.before = "h1"

\* C3: a dispatch (send_message, fetch) that finds the handler slot empty
\* returns None at once: no script runs, the host does not panic and the
\* slot is still empty.
C3_DispatchWithoutHandler ==
    /\ (cur.op = "send_message" /\ cur.fn = NoHandler) =>
          /\ result = Res("None", "")
          /\ pc = "idle"
          /\ ~panicked
          /\ completion = NoCompletion
          /\ handler = NoHandler
    /\ (cur.op = "fetch" /\ cur.fn = NoHandler) =>
          /\ result = Res("None", "")
          /\ pc = "idle"
          /\ ~panicked
          /\ completion = NoCompletion
          /\ ctx_handler = NoHandler

\* send_message has returned None for want of a handler
C3_Witness ==
    /\ cur.op = "send_message"
    /\ cur.fn = NoHandler
    /\ result = Res("None", "")
    /\ out = <<"No handler registered">>

\* an eval whose script threw has returned
EvalThrewReturned ==
    (cur.op = "eval" /\ pc = "idle" /\ completion = Thrown) =>
        /\ result = Res("Err", "RuntimeError")
        /\ ~panicked
        /\ threw[cur.obj]
        /\ ENABLED Eval(cur.obj, "valid")

\* an eval made after one that threw has returned
EvalAfterThrowReturned ==
    (cur.op = "eval" /\ pc = "idle" /\ threw[cur.obj]
     /\ completion.kind = "return") =>
        /\ ~panicked
        /\ result = IF completion.val = SymbolV
                    THEN Res("Err", "ConversionError")
                    ELSE Res("Ok", ToRustStringLossy(completion.val))

\* the script of an eval throws with no microtask job pending
EvalThrowStep ==
    (cur.op = "eval" /\ pc = "script" /\ microtasks = 0 /\ completion' = Thrown) =>
        /\ pc' = "idle"
        /\ result' = Res("Err", "RuntimeError")
        /\ ~panicked'

\* C4: an eval whose script throws returns Err(RuntimeError): the throw does
\* not make the host panic, and the object is left idle, so that a further
\* eval can start; an eval made after one that threw returns the result of
\* its own script.
C4_EvalRuntimeError ==
    /\ [](EvalThrewReturned /\ EvalAfterThrowReturned)
    /\ [][EvalThrowStep]_vars

\* an eval of the runtime has returned "xxx" after an earlier eval of it threw
C4_Witness ==
    /\ threw["rt"]
    /\ cur.obj = "rt"
    /\ cur.op = "eval"
    /\ pc = "idle"
    /\ result = Res("Ok", "xxx")

\* C5: an eval of a source that does not compile (invalid syntax, a dynamic
\* import) returns Err(CompileError) without a host panic, and no script runs.
C5_EvalCompileError ==
    (cur.op = "eval" /\ cur.src \in {"}", "import('moduleName')"}) =>
        /\ result = Res("Err", "CompileError")
        /\ pc = "idle"
        /\ ~panicked
        /\ completion = NoCompletion
        /\ last = NoCall

\* an eval of the dynamic import has returned its CompileError
C5_Witness ==
    /\ cur.op = "eval"
    /\ cur.src = "import('moduleName')"
    /\ result = Res("Err", "CompileError")

\* C6: a call of postMessage with an argument count other than one raises a
\* TypeError into the script and does nothing else; the host does not panic.
C6_ArityChecked ==
    (Called("postMessage") /\ Len(last.args) # 1) =>
        (last.thrown = "TypeError" /\ ~panicked)

\* what a script does against the protocol of the bridge function it called
ProtocolViolation ==
    \/ /\ Called("postMessage")
       /\ \/ Len(last.args) # 1
          \/ ArgGet(last.args, 0).t # "obj"
          \/ /\ ArgGet(last.args, 0).kind = Str("console")
             /\ ~IsArray(ArgGet(last.args, 0).args)
    \/ /\ Called("onMessage")
       /\ \/ Len(last.args) # 1
          \/ ~IsFunction(ArgGet(last.args, 0))
          \/ last.before # NoHandler

\* C7: every protocol violation against a bridge function is raised into the
\* script as an error, and none makes the host panic.
C7_ViolationsRaised ==
    ProtocolViolation => (last.thrown # "none" /\ ~panicked)

\* C8: a call of onMessage whose first argument is not callable (or is
\* missing) raises a TypeError into the script and leaves the handler slot as
\* it was.
C8_NotCallableRejected ==
    (Called("onMessage") /\ ~IsFunction(ArgGet(last.args, 0))) =>
        /\ last.thrown = "TypeError"
        /\ handler = last.before
        /\ ~panicked

\* onMessage() has been called without an argument while the slot held h1
C8_Witness ==
    /\ Called("onMessage")
    /\ last.args = <<>>
    /\ last.before = "h1"
    /\ last.thrown = "TypeError"

\* the kind of the message a postMessage call relayed
RelayedKind == ToRustStringLossy(Get(ArgGet(last.args, 0), "kind"))

\* C9: a relayed message whose kind is not "console" raises no error into the
\* script and prints the unknown-kind diagnostic and nothing else; the slot
\* is as before and the host does not panic.
C9_UnknownKindIgnored ==
    (/\ Called("postMessage")
     /\ ToObjectOk(ArgGet(last.args, 0))
     /\ RelayedKind # "console") =>
        /\ last.thrown = "none"
        /\ out = <<"Unknown message kind: " \o RelayedKind>>
        /\ handler = last.before
        /\ ~panicked

\* a message of kind "Console", with console-like fields, has been relayed
C9_Witness ==
    /\ Called("postMessage")
    /\ last.args = <<Obj(Str("Console"), Str("info"), Num(0),
                        Arr(<<Str("a"), Str("b")>>))>>
    /\ out = <<"Unknown message kind: Console">>

RECURSIVE SpaceSeparated(_)

\* the string forms of the values vs, in order, one space between neighbours
SpaceSeparated(vs) ==
    IF Len(vs) = 1 THEN ToRustStringLossy(vs[1])
    ELSE ToRustStringLossy(vs[1]) \o " " \o SpaceSeparated(Tail(vs))

\* the message of a postMessage call is a console message with a string
\* level, a number for a date and a list of args
RelayedConsole ==
    /\ Called("postMessage")
    /\ ArgGet(last.args, 0).t = "obj"
    /\ ArgGet(last.args, 0).kind = Str("console")
    /\ ArgGet(last.args, 0).level.t = "str"
    /\ ArgGet(last.args, 0).date.t = "num"
    /\ IsArray(ArgGet(last.args, 0).args)

\* C10: a relayed console message with level L, date D and a list of args
\* prints exactly one line: the timestamp of D in brackets, " console.L:" and,
\* behind one space, the string forms of the args in order with one space
\* between them; level "info", date 0 and args ["a","b"] give
\* "[<time 0>] console.info: a b".
C10_ConsoleLine ==
    /\ RelayedConsole =>
        LET m == ArgGet(last.args, 0) IN
        /\ last.thrown = "none"
        /\ ~panicked
        /\ out = << "[" \o FormatDateTime([secs |-> m.date.n \div 1000,
                                           millis |-> m.date.n % 1000])
                    \o "] console." \o m.level.s \o ":"
                    \o (IF m.args.elems = <<>> THEN ""
                        ELSE " " \o SpaceSeparated(m.args.elems)) >>
    /\ (/\ Called("postMessage")
        /\ ArgGet(last.args, 0) = Obj(Str("console"), Str("info"), Num(0),
                                      Arr(<<Str("a"), Str("b")>>))) =>
          out = <<"[T0.0] console.info: a b">>

\* the console message of the example has been relayed and its line printed
C10_Witness ==
    /\ RelayedConsole
    /\ ArgGet(last.args, 0).args = Arr(<<Str("a"), Str("b")>>)
    /\ ArgGet(last.args, 0).date = Num(0)
    /\ out = <<"[T0.0] console.info: a b">>

\* the message of a postMessage call is a console message with a list of
\* args whose date is absent, not a number, or not a calendar time
RelayedConsoleInvalidDate ==
    /\ Called("postMessage")
    /\ ArgGet(last.args, 0).t = "obj"
    /\ ArgGet(last.args, 0).kind = Str("console")
    /\ IsArray(ArgGet(last.args, 0).args)
    /\ ArgGet(last.args, 0).date.t # "num"

\* C11: a relayed console message whose date is absent, not a number or not
\* convertible to a calendar time still prints its line, stamped with time 0,
\* and the host does not fail.
C11_InvalidDateIsEpochZero ==
    RelayedConsoleInvalidDate =>
        LET m == ArgGet(last.args, 0) IN
        /\ ~panicked
        /\ last.thrown = "none"
        /\ out = <<ConsoleLine([secs |-> 0, millis |-> 0],
                               ToRustStringLossy(m.level),
                               ConsoleOutput(m.args.elems))>>

\* the dates the conversion to an integer maps to 0: an absent or
\* non-numeric date prints the line stamped with time 0
AbsentDateIsEpochZero ==
    (RelayedConsoleInvalidDate /\ ArgGet(last.args, 0).date.t # "inf") =>
        (~panicked /\ out[1] = "[T0.0] console.info: a b")

\* what the value a host operation returns to the embedder is made of, by the
\* return type of the operation: eval and both fetch results are Rust
\* Strings, run_event_loop returns nothing, and the Some of send_message
\* holds the Local<v8::Value> that handler.call created in the HandleScope
\* send_message opened, which is dropped as send_message returns
Returns(op, res) ==
    CASE op = "send_message" -> IF res.tag = "Some" THEN "Local" ELSE "nothing"
      [] op \in {"eval", "fetch"} -> IF res.tag = "None" THEN "nothing" ELSE "String"
      [] OTHER -> "nothing"

\* a host operation has returned to the embedder
OpReturned ==
    /\ pc = "idle"
    /\ cur.op \in {"eval", "send_message", "fetch", "run_event_loop"}

\* C12: whatever a host operation has returned to the embedder is owned data
\* or nothing, never a Local handle of the scope the operation opened and
\* closed.
C12_NoScopedHandleEscapes ==
    OpReturned => Returns(cur.op, result) # "Local"

\* an eval or a dispatch whose script or handler ended in an exception is
\* over, and its last step was not a bridge call
ThrowingOpOver ==
    /\ cur.op \in {"eval", "send_message", "fetch"}
    /\ completion = Thrown
    /\ pc \notin {"script", "micro"}
    /\ last = NoCall

\* C13: an eval or a dispatch whose script or handler threw returns a typed
\* error to the embedder: the host has not panicked, the result carries the
\* error, and the embedder can start a further operation.
C13_ExceptionConverted ==
    ThrowingOpOver =>
        /\ ~panicked
        /\ result.tag = "Err"
        /\ pc = "idle"

\* a step that is a call of run_event_loop with no microtask pending
EventLoopCallNoPending ==
    /\ pc = "idle"
    /\ ~panicked
    /\ microtasks = 0
    /\ cur'.op = "run_event_loop"

\* a call of run_event_loop with no microtask pending raises no error and
\* changes neither handler slot, nor the borrow flag, nor the microtask
\* queue, nor either context
EventLoopNoOp ==
    EventLoopCallNoPending =>
        /\ ~panicked'
        /\ pc' = "idle"
        /\ result' = Res("unit", "")
        /\ out' = <<>>
        /\ UNCHANGED <<handler, ctx_handler, borrowed, microtasks, registrations,
                       threw, setupVars>>

\* a call of run_event_loop that follows a call of run_event_loop changes
\* nothing at all
EventLoopRepeated ==
    (EventLoopCallNoPending /\ cur.op = "run_event_loop") => UNCHANGED vars

\* C15: run_event_loop with no microtask pending is a no-op, however often it
\* is called: it raises no error, leaves the handler slots and the contexts
\* as they were, and can be called again.
C15_EventLoopIdempotent ==
    /\ [][EventLoopNoOp /\ EventLoopRepeated]_vars
    /\ [](cur.op = "run_event_loop" => ENABLED RunEventLoop)

\* run_event_loop has returned while a handler is registered
C15_Witness ==
    /\ cur.op = "run_event_loop"
    /\ pc = "idle"
    /\ handler = "h1"
    /\ ctx_handler = "h2"
    /\ result = Res("unit", "")

\* C18: every call of run_event_loop has performed exactly one microtask
\* checkpoint and has returned: it takes no second pass and does not wait.
C18_EventLoopOnePass ==
    cur.op = "run_event_loop" =>
        /\ steps = <<"checkpoint">>
        /\ pc = "idle"
        /\ microtasks = 0
        /\ ~panicked

\* run_event_loop has returned after its one checkpoint, after an eval of the
\* runtime ended in a RuntimeError
C18_Witness ==
    /\ cur.op = "run_event_loop"
    /\ steps = <<"checkpoint">>
    /\ pc = "idle"
    /\ threw["rt"]

\* C19: the state of the runtime is never left borrowed while script runs:
\* a handler that calls onMessage with a callable while it is dispatched gets
\* the Error "Handler already registered" with the slot untouched, and
\* neither that call nor a postMessage call of the handler panics the host
\* over the borrow (postMessage panics only where it does outside a
\* dispatch).
C19_NoDoubleBorrow ==
    /\ ~borrowed
    /\ (cur.op = "send_message" /\ Called("onMessage")
        /\ IsFunction(ArgGet(last.args, 0))) =>
          /\ last.thrown = "Error"
          /\ handler = last.before
          /\ handler = cur.fn
          /\ ~panicked
    /\ (cur.op = "send_message" /\ Called("postMessage")) =>
          panicked = message_from_worker(last.args).panicked

\* the handler h1, while dispatched, has called onMessage(h2) and got the
\* Error
C19_Witness ==
    /\ cur.op = "send_message"
    /\ cur.fn = "h1"
    /\ Called("onMessage")
    /\ last.args = <<Fn("h2")>>
    /\ last.thrown = "Error"
    /\ handler = "h1"
    /\ ~panicked

\* how often the step s is among the steps of the last operation
Count(s) == Cardinality({i \in 1..Len(steps) : steps[i] = s})

\* the step a comes before the step b wherever both were taken
Before(a, b) ==
    \A i, j \in 1..Len(steps) : (steps[i] = a /\ steps[j] = b) => i < j

\* C20: every dispatch prepares the event exactly once and before it reads
\* the handler slot, with or without a handler; it converts the event and
\* calls the handler once each, in that order and after the lookup, when a
\* handler is registered, and does neither when none is.
C20_DispatchOrder ==
    cur.op = "send_message" =>
        /\ Count("prepare") = 1
        /\ Count("lookup") = 1
        /\ Before("prepare", "lookup")
        /\ Before("lookup", "to_value")
        /\ Before("to_value", "call")
        /\ Count("to_value") = (IF cur.fn = NoHandler THEN 0 ELSE 1)
        /\ Count("call") = (IF cur.fn = NoHandler THEN 0 ELSE 1)
        /\ cur.fn = NoHandler => (pc = "idle" /\ result = Res("None", ""))

\* a dispatch without a handler has prepared the event and returned None
C20_Witness ==
    /\ cur.op = "send_message"
    /\ cur.fn = NoHandler
    /\ steps = <<"prepare", "lookup">>
    /\ result = Res("None", "")
    /\ out = <<"No handler registered">>

\* the bootstrap scripts, by what they provide
BootstrapScripts ==
    {"init.js", "atob.js", "btoa.js", "console.js", "navigator.js", "events.js",
     "fetch/headers.js", "fetch/response.js", "fetch/request.js",
     "fetch/fetch-event.js", "message.js"}

\* how often the bootstrap script s has been evaluated
Evaluated(s) == Cardinality({i \in 1..Len(boot) : boot[i] = s})

\* the bootstrap script a has been evaluated before the bootstrap script b
EvaluatedBefore(a, b) ==
    \A i, j \in 1..Len(boot) : (boot[i] = a /\ boot[j] = b) => i < j

\* C14: a JsRuntime exists only once create_init has evaluated every
\* bootstrap script, each once, the event model before headers, response and
\* request and those before the fetch-event polyfill; no embedder operation
\* runs on the runtime before that; and when a bootstrap script fails the
\* constructor panics, no runtime exists and none ever runs an operation.
C14_BootstrapBeforeScripts ==
    /\ made["rt"] = "create_init" =>
          /\ \A s \in BootstrapScripts : Evaluated(s) = 1
          /\ \A s \in {"fetch/headers.js", "fetch/response.js", "fetch/request.js"} :
                /\ EvaluatedBefore("events.js", s)
                /\ EvaluatedBefore(s, "fetch/fetch-event.js")
    /\ cur.obj = "rt" => made["rt"] = "create_init"
    /\ (\E s \in BootstrapScripts : Evaluated(s) = 0) =>
          /\ made["rt"] \in {"no", "failed"}
          /\ handler = NoHandler
    /\ made["rt"] = "failed" => (panicked /\ pc = "aborted")

\* an embedder script has been evaluated by a runtime that create_init
\* returned
C14_Witness ==
    /\ made["rt"] = "create_init"
    /\ cur.obj = "rt"
    /\ cur.op = "eval"
    /\ cur.src = "valid"
    /\ result = Res("Ok", "xxx")
    /\ Len(boot) = 13

\* the probe has completed in a context whose global console no script has
\* assigned
ProbedAsConstructed ==
    /\ cur.op = "eval"
    /\ cur.src = Probe
    /\ pc = "idle"
    /\ console[cur.obj] # "script"

\* C16 as claimed: in whatever way the runtime was created, the probe of the
\* global console yields "undefined" as long as no script has defined it.
C16_ConsoleAbsentAnyRuntime ==
    ProbedAsConstructed => result = Res("Ok", "undefined")

\* C16: in a context made by JsContext::create with no extension registered,
\* the probe of the global console yields "undefined" as long as no script
\* has defined it.
C16_ConsoleAbsentAfterCreate ==
    (ProbedAsConstructed /\ cur.obj = "ctx" /\ made["ctx"] = "create"
     /\ exts = <<>>) =>
        result = Res("Ok", "undefined")

\* the probe has been evaluated in a context that create made
C16_Witness ==
    /\ ProbedAsConstructed
    /\ cur.obj = "ctx"
    /\ made["ctx"] = "create"
    /\ exts = <<>>
    /\ console["ctx"] = "absent"
    /\ result = Res("Ok", "undefined")

\* how often the extension e has been bound into the context
Installed(e) == Cardinality({i \in 1..Len(exts) : exts[i] = e})

\* C17: no extension is bound into a context more than once, and a context
\* made by create_init has the logging, the codec and the event-listener
\* extension bound, in that order, each once.
C17_ExtensionsInstalledOnce ==
    /\ \A e \in Extensions : Installed(e) <= 1
    /\ made["ctx"] = "create_init" =>
          exts = <<"ConsoleExt", "Base64UtilsExt", "EventListerExt">>

\* create_init binds the three default extensions first, in order
DefaultsInstalledFirst ==
    made["ctx"] = "create_init" =>
        SubSeq(exts, 1, 3) = <<"ConsoleExt", "Base64UtilsExt", "EventListerExt">>

====
